---- MODULE Spec2Model ----
(***************************************************************************)
(* Model of openblas-build/src/check.rs: LinkFlags::parse, MakeConf::new   *)
(* and LibInspect::new with its capability queries.                        *)
(*                                                                         *)
(* A Rust string is a sequence of one-character strings, so that split,    *)
(* trim, starts_with and trim_start_matches are computed character by      *)
(* character, and the ordering of sort() is the byte-wise one.             *)
(***************************************************************************)
EXTENDS Naturals, Sequences, FiniteSets

VARIABLES
    fs,          \* the filesystem: status of every path the flags can name
    line,        \* argument of LinkFlags::parse
    flags,       \* what LinkFlags::parse returned, NotCalled before the call
    conf,        \* Makefile.conf: whether it can be opened, and its lines
    lineno,      \* number of lines of conf the loop of MakeConf::new has consumed
    detail,      \* the local `detail` of MakeConf::new
    conf_res,    \* what MakeConf::new returned, NotCalled while it runs
    lib_path,    \* argument of LibInspect::new
    lib_exists,  \* whether lib_path exists
    pc,          \* position of LibInspect::new
    nm,          \* outcome of the `nm -g` command: launched or not, exit status, stdout
    objdump,     \* outcome of the `objdump -p` command, likewise
    symbols,     \* the local `symbols` of LibInspect::new
    libs,        \* the local `libs` of LibInspect::new
    lib_res      \* what LibInspect::new returned, NotCalled while it runs

vars == <<fs, line, flags, conf, lineno, detail, conf_res,
          lib_path, lib_exists, pc, nm, objdump, symbols, libs, lib_res>>

flagVars == <<line, flags>>
confVars == <<conf, lineno, detail, conf_res>>
libVars  == <<lib_path, lib_exists, pc, nm, objdump, symbols, libs, lib_res>>

NotCalled == [kind |-> "NotCalled"]

\* No Makefile.conf is involved.
NoConf == [exists |-> FALSE, lines |-> <<>>]

----------------------------------------------------------------------------
(* Strings                                                                 *)

\* The characters the inputs use, in ascending byte order.
Alphabet ==
    <<
      " ", "-", ".", "/", "0", "1", "2", "3", "4", "5", "6", "7", "8",
      "9", "=", "A", "B", "C", "D", "E", "F", "G", "H", "I", "J", "K",
      "L", "M", "N", "O", "P", "Q", "R", "S", "T", "U", "V", "W", "X",
      "Y", "Z", "_", "a", "b", "c", "d", "e", "f", "g", "h", "i", "j",
      "k", "l", "m", "n", "o", "p", "q", "r", "s", "t", "u", "v", "w",
      "x", "y", "z"
    >>

CharCode(c) == CHOOSE i \in 1..Len(Alphabet) : Alphabet[i] = c

MinNat(a, b) == IF a <= b THEN a ELSE b

\* Ord for str: lexicographic on bytes, a proper prefix first.
StrLess(s, t) ==
    \E i \in 1..(MinNat(Len(s), Len(t)) + 1) :
        /\ \A j \in 1..(i - 1) : s[j] = t[j]
        /\ \/ i > Len(s) /\ i <= Len(t)
           \/ i <= Len(s) /\ i <= Len(t) /\ CharCode(s[i]) < CharCode(t[i])

StrLeq(s, t) == s = t \/ StrLess(s, t)

\* str::starts_with
starts_with(s, p) == Len(p) <= Len(s) /\ SubSeq(s, 1, Len(p)) = p

\* str::trim_start_matches: every leading repetition of the pattern is removed.
RECURSIVE trim_start_matches(_, _)
trim_start_matches(s, p) ==
    IF Len(p) > 0 /\ starts_with(s, p)
    THEN trim_start_matches(SubSeq(s, Len(p) + 1, Len(s)), p)
    ELSE s

\* str::split with a one-character separator: n separators give n + 1 parts,
\* empty parts included; the empty string gives one empty part.
RECURSIVE split(_, _)
split(s, sep) ==
    IF \A i \in 1..Len(s) : s[i] # sep
    THEN <<s>>
    ELSE LET k == CHOOSE i \in 1..Len(s) :
                      s[i] = sep /\ \A j \in 1..(i - 1) : s[j] # sep
         IN  <<SubSeq(s, 1, k - 1)>> \o split(SubSeq(s, k + 1, Len(s)), sep)

IsSpace(c) == c = " "

RECURSIVE trim_start(_)
trim_start(s) ==
    IF Len(s) > 0 /\ IsSpace(s[1]) THEN trim_start(Tail(s)) ELSE s

RECURSIVE trim_end(_)
trim_end(s) ==
    IF Len(s) > 0 /\ IsSpace(s[Len(s)])
    THEN trim_end(SubSeq(s, 1, Len(s) - 1))
    ELSE s

\* str::trim
trim(s) == trim_end(trim_start(s))

Range(s) == {s[i] : i \in 1..Len(s)}

\* The parts joined with single spaces: the string that split(_, " ") takes apart.
RECURSIVE JoinSpace(_)
JoinSpace(parts) ==
    IF Len(parts) = 0 THEN <<>>
    ELSE IF Len(parts) = 1 THEN parts[1]
    ELSE parts[1] \o <<" ">> \o JoinSpace(Tail(parts))

\* Sequences over S of length lo..hi.
SeqsOf(S, lo, hi) == UNION {[1..n -> S] : n \in lo..hi}

----------------------------------------------------------------------------
(* Sorting                                                                 *)

RECURSIVE InsertSorted(_, _)
InsertSorted(v, x) ==
    IF v = <<>> THEN <<x>>
    ELSE IF StrLess(x, v[1]) THEN <<x>> \o v
    ELSE <<v[1]>> \o InsertSorted(Tail(v), x)

\* Vec::sort: ascending, equal elements all kept.
RECURSIVE sort(_)
sort(v) ==
    IF v = <<>> THEN <<>>
    ELSE InsertSorted(sort(SubSeq(v, 1, Len(v) - 1)), v[Len(v)])

\* HashSet::into_iter().collect(): the elements once each, in the order of the
\* hashes, which has nothing to do with the order of the elements. The order
\* taken here is the descending one, so that only sort() puts them in order.
RECURSIVE into_iter(_)
into_iter(set) ==
    IF set = {} THEN <<>>
    ELSE LET x == CHOOSE y \in set : \A z \in set : StrLeq(z, y)
         IN  <<x>> \o into_iter(set \ {x})

\* as_sorted_vec with the sort left out.
as_sorted_vec_unsorted(set) == into_iter(set)

as_sorted_vec(set) == sort(into_iter(set))

----------------------------------------------------------------------------
(* The filesystem                                                          *)

DirA == <<"a">>
DirB == <<"b">>

\* The paths whose status varies; every other path does not exist.
Paths == {DirA, DirB}

\* "missing": no such path; "ok": it exists and resolves; "unresolvable": it
\* exists, and canonicalize fails on it.
FileSystems == [Paths -> {"missing", "ok", "unresolvable"}]

\* Path::exists
exists(path, f) == path \in DOMAIN f /\ f[path] # "missing"

\* Path::canonicalize of a relative path that resolves: the absolute path
\* (the working directory is the root).
canonicalize(path) == <<"/">> \o path

----------------------------------------------------------------------------
(* LinkFlags::parse                                                        *)

Ok(paths, names) == [kind |-> "Ok", search_paths |-> paths, libs |-> names]

CannotCanonicalizePath(path) == [kind |-> "CannotCanonicalizePath", path |-> path]

DashL == <<"-", "L">>
Dashl == <<"-", "l">>

\* parse_lib with the name assigned instead of inserted.
parse_lib_assign(acc, entry) ==
    IF starts_with(entry, Dashl)
    THEN [acc EXCEPT !.libs = {trim_start_matches(entry, Dashl)}]
    ELSE acc

\* The `if entry.starts_with("-l")` statement of the loop body.
parse_lib(acc, entry) ==
    IF starts_with(entry, Dashl)
    THEN [acc EXCEPT !.libs = @ \cup {trim_start_matches(entry, Dashl)}]
    ELSE acc

\* parse_entry without the `if !path.exists() { continue; }`: canonicalize
\* fails on a path that does not exist.
parse_entry_no_exists_check(acc, entry, f) ==
    IF acc.kind # "Ok" THEN acc
    ELSE IF starts_with(entry, DashL)
    THEN LET path == trim_start_matches(entry, DashL)
         IN  IF ~exists(path, f) \/ f[path] = "unresolvable"
             THEN CannotCanonicalizePath(path)
             ELSE parse_lib([acc EXCEPT !.search_paths = @ \cup {canonicalize(path)}],
                            entry)
    ELSE parse_lib(acc, entry)

\* One iteration of `for entry in line.split(" ")`. acc holds the two HashSets,
\* or the error the `?` returned with.
parse_entry(acc, entry, f) ==
    IF acc.kind # "Ok" THEN acc
    ELSE IF starts_with(entry, DashL)
    THEN LET path == trim_start_matches(entry, DashL)
         IN  IF ~exists(path, f) THEN acc
             ELSE IF f[path] = "unresolvable" THEN CannotCanonicalizePath(path)
             ELSE parse_lib([acc EXCEPT !.search_paths = @ \cup {canonicalize(path)}],
                            entry)
    ELSE parse_lib(acc, entry)

RECURSIVE parse_loop(_, _, _)
parse_loop(acc, entries, f) ==
    IF entries = <<>> THEN acc
    ELSE parse_loop(parse_entry(acc, entries[1], f), Tail(entries), f)

\* LinkFlags::parse
parse(l, f) ==
    LET acc == parse_loop(Ok({}, {}), split(l, " "), f)
    IN  IF acc.kind = "Ok"
        THEN Ok(as_sorted_vec(acc.search_paths), as_sorted_vec(acc.libs))
        ELSE acc

\* The tokens the flag strings are made of.
Tokens ==
    { <<>>,
      <<"-", "L", "a">>,
      <<"-", "L", "b">>,
      <<"-", "l", "c">>,
      <<"-", "l", "d">>,
      <<"-", "l", "-", "l", "c">> }

MaxTokens == 3

TokenSeqs == SeqsOf(Tokens, 1, MaxTokens)

FlagLines == {JoinSpace(ts) : ts \in TokenSeqs}

InitFlags ==
    /\ fs \in FileSystems
    /\ line \in FlagLines
    /\ flags = NotCalled
    /\ conf = NoConf /\ lineno = 0 /\ detail = NotCalled /\ conf_res = NotCalled
    /\ lib_path = <<>> /\ lib_exists = FALSE /\ pc = "idle" /\ nm = NotCalled /\ objdump = NotCalled
    /\ symbols = <<>> /\ libs = <<>> /\ lib_res = NotCalled

\* A call of LinkFlags::parse(line).
Parse ==
    /\ flags = NotCalled
    /\ flags' = parse(line, fs)
    /\ UNCHANGED <<fs, line, confVars, libVars>>

NextFlags == Parse

SpecFlags == InitFlags /\ [][NextFlags]_vars

----------------------------------------------------------------------------
(* Claims about LinkFlags::parse                                           *)

StrictlyAscending(v) == \A i \in 1..(Len(v) - 1) : StrLess(v[i], v[i + 1])

LineTokens == split(line, " ")

TokC == <<"-", "l", "c">>
TokD == <<"-", "l", "d">>
TokA == <<"-", "L", "a">>
TokB == <<"-", "L", "b">>

\* C1: whenever parse succeeds, search_paths and libs are each strictly
\* ascending (sorted, no element twice), whatever the order or repetition of
\* the tokens.
C1_SortedNoDup ==
    flags.kind = "Ok" =>
        /\ StrictlyAscending(flags.search_paths)
        /\ StrictlyAscending(flags.libs)

\* "-ld -lc -ld": descending and repeated on input, <<c, d>> on output.
C1_Witness ==
    /\ flags.kind = "Ok"
    /\ LineTokens = <<TokD, TokC, TokD>>
    /\ Len(flags.libs) = 2

NonEmptyTokens(ts) == Range(ts) \ {<<>>}

\* C2: on one filesystem, a successful parse of the line equals the parse of
\* every flag string with the same set of non-empty tokens (tokens permuted,
\* repeated, or separated by extra spaces).
C2_SameTokensSameResult ==
    flags.kind = "Ok" =>
        LET given == NonEmptyTokens(LineTokens)
        IN  \A ts \in TokenSeqs :
                NonEmptyTokens(ts) = given => parse(JoinSpace(ts), fs) = flags

\* "-Lb  -lc" (two spaces), b existing: its permutations and repetitions are
\* among the strings compared.
C2_Witness ==
    /\ flags.kind = "Ok"
    /\ LineTokens = <<TokB, <<>>, TokC>>
    /\ Len(flags.search_paths) = 1
    /\ Len(flags.libs) = 1

PathOf(tok) == trim_start_matches(tok, DashL)

IsMissingL(tok) == starts_with(tok, DashL) /\ ~exists(PathOf(tok), fs)

IsL(tok) == starts_with(tok, DashL)

WithoutMissingL == LET keep(tok) == ~IsMissingL(tok) IN SelectSeq(LineTokens, keep)

WithoutL == LET keep(tok) == ~IsL(tok) IN SelectSeq(LineTokens, keep)

\* C3: a -L token whose path does not exist is dropped: it raises no error
\* (an error names a path that exists), the result is the one for the string
\* without such tokens, every search path is the canonical form of an
\* existing path named by a -L token, and libs is what the string without
\* its -L tokens gives.
C3_MissingPathDropped ==
    flags # NotCalled =>
        /\ flags.kind = "CannotCanonicalizePath" => exists(flags.path, fs)
        /\ flags = parse(JoinSpace(WithoutMissingL), fs)
        /\ flags.kind = "Ok" =>
              /\ \A p \in Range(flags.search_paths) :
                     \E tok \in Range(LineTokens) :
                         /\ IsL(tok)
                         /\ exists(PathOf(tok), fs)
                         /\ p = canonicalize(PathOf(tok))
              /\ flags.libs = parse(JoinSpace(WithoutL), fs).libs

\* "-La -lc" with a missing: search_paths empty, libs = <<c>>.
C3_Witness ==
    /\ fs[DirA] = "missing"
    /\ LineTokens = <<TokA, TokC>>
    /\ flags = Ok(<<>>, << <<"c">> >>)

\* C10: libs holds exactly, for every token starting with -l, the text after
\* that one leading -l, and nothing else.
C10_LibsVerbatim ==
    flags.kind = "Ok" =>
        Range(flags.libs) =
            {SubSeq(tok, 3, Len(tok)) :
                tok \in {t \in Range(LineTokens) : starts_with(t, Dashl)}}

----------------------------------------------------------------------------
(* MakeConf::new                                                           *)

\* LinkFlags::default()
LinkFlags_default == [search_paths |-> <<>>, libs |-> <<>>]

\* MakeConf::default()
MakeConf_default ==
    [os_name |-> <<>>, no_fortran |-> FALSE,
     c_extra_libs |-> LinkFlags_default, f_extra_libs |-> LinkFlags_default]

MakeConfNotExist == [kind |-> "MakeConfNotExist"]

OSNAME == <<"O", "S", "N", "A", "M", "E">>
NOFORTRAN == <<"N", "O", "F", "O", "R", "T", "R", "A", "N">>
CEXTRALIB == <<"C", "E", "X", "T", "R", "A", "L", "I", "B">>
FEXTRALIB == <<"F", "E", "X", "T", "R", "A", "L", "I", "B">>

Continue(d) == [kind |-> "Continue", detail |-> d]

\* `detail.<field> = LinkFlags::parse(entry[1])?`
set_extra_libs(d, field, value, f) ==
    LET r == parse(value, f)
    IN  IF r.kind = "Ok"
        THEN Continue([d EXCEPT ![field] =
                          [search_paths |-> r.search_paths, libs |-> r.libs]])
        ELSE r

\* match_key with no_fortran taken from the value: true only for a value of 1.
match_key_by_value(d, entry, f) ==
    IF entry[1] = OSNAME THEN Continue([d EXCEPT !.os_name = entry[2]])
    ELSE IF entry[1] = NOFORTRAN
    THEN Continue([d EXCEPT !.no_fortran = (entry[2] = <<"1">>)])
    ELSE IF entry[1] = CEXTRALIB THEN set_extra_libs(d, "c_extra_libs", entry[2], f)
    ELSE IF entry[1] = FEXTRALIB THEN set_extra_libs(d, "f_extra_libs", entry[2], f)
    ELSE Continue(d)

\* The `match entry[0]` of the loop body.
match_key(d, entry, f) ==
    IF entry[1] = OSNAME THEN Continue([d EXCEPT !.os_name = entry[2]])
    ELSE IF entry[1] = NOFORTRAN THEN Continue([d EXCEPT !.no_fortran = TRUE])
    ELSE IF entry[1] = CEXTRALIB THEN set_extra_libs(d, "c_extra_libs", entry[2], f)
    ELSE IF entry[1] = FEXTRALIB THEN set_extra_libs(d, "f_extra_libs", entry[2], f)
    ELSE Continue(d)

\* read_line accepting every line with at least two parts.
read_line_two_or_more(d, l, f) ==
    IF Len(l) = 0 THEN Continue(d)
    ELSE LET entry == split(l, "=")
         IN  IF Len(entry) < 2 THEN Continue(d) ELSE match_key(d, entry, f)

\* One iteration of `for line in buf.lines()`: the detail to go on with, or
\* the error the `?` returns.
read_line(d, l, f) ==
    IF Len(l) = 0 THEN Continue(d)
    ELSE LET entry == split(l, "=")
         IN  IF Len(entry) # 2 THEN Continue(d) ELSE match_key(d, entry, f)

\* The lines a Makefile.conf is made of.
ConfLines ==
    { <<>>,
      OSNAME \o <<"=", "L">>,
      OSNAME \o <<"=", "X", "=", "Y">>,
      NOFORTRAN \o <<"=", "0">>,
      NOFORTRAN \o <<"=">>,
      NOFORTRAN,
      <<"F", "O", "O", "=", "1">>,
      CEXTRALIB \o <<"=", "-", "L", "a", " ", "-", "l", "c">>,
      FEXTRALIB \o <<"=", "-", "l", "d">> }

MaxLines == 3

InitConf ==
    /\ fs \in {f \in FileSystems : f[DirB] = "missing"}
    /\ conf \in [exists : BOOLEAN, lines : SeqsOf(ConfLines, 0, MaxLines)]
    /\ conf.exists \/ conf.lines = <<>>
    /\ lineno = 0 /\ detail = NotCalled /\ conf_res = NotCalled
    /\ line = <<>> /\ flags = NotCalled
    /\ lib_path = <<>> /\ lib_exists = FALSE /\ pc = "idle" /\ nm = NotCalled /\ objdump = NotCalled
    /\ symbols = <<>> /\ libs = <<>> /\ lib_res = NotCalled

\* `let mut detail = MakeConf::default(); let f = fs::File::open(&path)...?`
OpenConf ==
    /\ detail = NotCalled /\ conf_res = NotCalled
    /\ IF conf.exists
       THEN detail' = MakeConf_default /\ conf_res' = conf_res
       ELSE detail' = MakeConf_default /\ conf_res' = MakeConfNotExist
    /\ UNCHANGED <<fs, conf, lineno, flagVars, libVars>>

\* One iteration of the loop over the lines.
ReadLine ==
    /\ detail # NotCalled /\ conf_res = NotCalled
    /\ lineno < Len(conf.lines)
    /\ LET r == read_line(detail, conf.lines[lineno + 1], fs)
       IN  IF r.kind = "Continue"
           THEN detail' = r.detail /\ conf_res' = conf_res
           ELSE detail' = detail /\ conf_res' = r
    /\ lineno' = lineno + 1
    /\ UNCHANGED <<fs, conf, flagVars, libVars>>

\* `Ok(detail)` after the last line.
ReturnConf ==
    /\ detail # NotCalled /\ conf_res = NotCalled
    /\ lineno = Len(conf.lines)
    /\ conf_res' = [kind |-> "Ok", detail |-> detail]
    /\ UNCHANGED <<fs, conf, lineno, detail, flagVars, libVars>>

NextConf == OpenConf \/ ReadLine \/ ReturnConf

SpecConf == InitConf /\ [][NextConf]_vars

----------------------------------------------------------------------------
(* Claims about MakeConf::new                                              *)

\* The key of a line: its first part, when it splits on "=" into two parts.
HasKey(l, key) ==
    LET parts == split(l, "=") IN Len(parts) = 2 /\ parts[1] = key

KeyAmong(ls, key) == \E j \in 1..Len(ls) : HasKey(ls[j], key)

\* C4: while the loop runs, no_fortran is true iff one of the lines consumed
\* so far has the key NOFORTRAN (so no later line resets it), whatever the
\* value; and a successful MakeConf::new returns no_fortran true iff the file
\* has a line with that key.
C4_NoFortranIffKey ==
    /\ (detail # NotCalled /\ conf_res = NotCalled) =>
          (detail.no_fortran <=> KeyAmong(SubSeq(conf.lines, 1, lineno), NOFORTRAN))
    /\ conf_res.kind = "Ok" =>
          (conf_res.detail.no_fortran <=> KeyAmong(conf.lines, NOFORTRAN))

\* "NOFORTRAN=", "NOFORTRAN=0" and then "OSNAME=L": an empty value, a 0, and
\* a later line of another key.
C4_Witness ==
    /\ conf_res.kind = "Ok"
    /\ conf.lines = <<NOFORTRAN \o <<"=">>, NOFORTRAN \o <<"=", "0">>,
                      OSNAME \o <<"=", "L">>>>
    /\ conf_res.detail.no_fortran

RecognizedKeys == {OSNAME, NOFORTRAN, CEXTRALIB, FEXTRALIB}

\* An empty line, a line that does not split into two parts, an unknown key.
Ignored(l) == \A key \in RecognizedKeys : ~HasKey(l, key)

WithoutIgnored(ls) == LET keep(l) == ~Ignored(l) IN SelectSeq(ls, keep)

\* MakeConf::new on an openable file of the given lines, as one function.
RECURSIVE new_loop(_, _, _)
new_loop(r, ls, f) ==
    IF r.kind # "Continue" THEN r
    ELSE IF ls = <<>> THEN [kind |-> "Ok", detail |-> r.detail]
    ELSE new_loop(read_line(r.detail, ls[1], f), Tail(ls), f)

\* C5: ignored lines raise no error and change no field: at every step of
\* the loop the detail is the one the consumed lines give with the ignored
\* ones removed, the result of MakeConf::new is the result for the file
\* without its ignored lines, and a field whose key is on no line has its
\* default.
C5_IgnoredLinesNoEffect ==
    /\ (detail # NotCalled /\ conf_res = NotCalled) =>
          [kind |-> "Ok", detail |-> detail] =
              new_loop(Continue(MakeConf_default),
                       WithoutIgnored(SubSeq(conf.lines, 1, lineno)), fs)
    /\ (conf_res # NotCalled /\ conf.exists) =>
          conf_res = new_loop(Continue(MakeConf_default), WithoutIgnored(conf.lines), fs)
    /\ conf_res.kind = "Ok" =>
          /\ KeyAmong(conf.lines, OSNAME) \/ conf_res.detail.os_name = <<>>
          /\ KeyAmong(conf.lines, NOFORTRAN) \/ ~conf_res.detail.no_fortran
          /\ KeyAmong(conf.lines, CEXTRALIB)
                \/ conf_res.detail.c_extra_libs = LinkFlags_default
          /\ KeyAmong(conf.lines, FEXTRALIB)
                \/ conf_res.detail.f_extra_libs = LinkFlags_default

\* "OSNAME=L", then the malformed "OSNAME=X=Y", then the unknown "FOO=1":
\* os_name stays L, the other fields keep their defaults.
C5_Witness ==
    /\ conf.lines = <<OSNAME \o <<"=", "L">>, OSNAME \o <<"=", "X", "=", "Y">>,
                      <<"F", "O", "O", "=", "1">>>>
    /\ conf_res = [kind |-> "Ok",
                   detail |-> [MakeConf_default EXCEPT !.os_name = <<"L">>]]

----------------------------------------------------------------------------
(* LibInspect::new                                                         *)

LibraryNotExist(path) == [kind |-> "LibraryNotExist", path |-> path]

\* The Error that `?` makes of the io::Error of a command that did not start.
IoError == [kind |-> "IoError"]

TypeT == <<"T">>
NEEDED == <<"N", "E", "E", "D", "E", "D">>
CblasPrefix == <<"c", "b", "l", "a", "s", "_">>
LapackePrefix == <<"L", "A", "P", "A", "C", "K", "E", "_">>
Dsyev == <<"d", "s", "y", "e", "v", "_">>

\* The existence check without its early return.
check_exists_missing(path, e) == NotCalled

\* `if !path.exists() { return Err(Error::LibraryNotExist { .. }) }`: what is
\* returned at once, NotCalled when the function goes on.
check_exists(path, e) == IF ~e THEN LibraryNotExist(path) ELSE NotCalled

\* `?` left out: the outcome of the command is used whether it started or not.
try_output_unchecked(out) == NotCalled

\* `Command::output()?`: what is returned at once, NotCalled when the function
\* goes on. Only a command that could not be started is an Err; the exit
\* status in the Output is not looked at.
try_output(out) == IF out.kind = "Failed" THEN IoError ELSE NotCalled

\* The closure over the nm lines, keeping every line of three fields.
nm_symbol_any_type(l) ==
    LET entry == split(trim(l), " ")
    IN  IF Len(entry) = 3 THEN <<entry[3]>> ELSE <<>>

\* The closure of flat_map over the nm lines: Some(name) as <<name>>, None as <<>>.
nm_symbol(l) ==
    LET entry == split(trim(l), " ")
    IN  IF Len(entry) = 3 /\ entry[2] = TypeT THEN <<entry[3]>> ELSE <<>>

\* The closure of flat_map over the objdump lines.
needed_lib(l) ==
    IF starts_with(trim(l), NEEDED)
    THEN <<trim(trim_start_matches(trim(l), NEEDED))>>
    ELSE <<>>

RECURSIVE nm_flat_map(_)
nm_flat_map(ls) ==
    IF ls = <<>> THEN <<>> ELSE nm_symbol(ls[1]) \o nm_flat_map(Tail(ls))

RECURSIVE objdump_flat_map(_)
objdump_flat_map(ls) ==
    IF ls = <<>> THEN <<>> ELSE needed_lib(ls[1]) \o objdump_flat_map(Tail(ls))

\* collect_symbols without `symbols.sort()`.
collect_symbols_unsorted(ls) == nm_flat_map(ls)

\* `let mut symbols: Vec<_> = ...collect(); symbols.sort();`
collect_symbols(ls) == sort(nm_flat_map(ls))

\* `let mut libs: Vec<_> = ...collect(); libs.sort();`
collect_libs(ls) == sort(objdump_flat_map(ls))

\* LibInspect::has_cblas
has_cblas(self) ==
    \E i \in 1..Len(self.symbols) : starts_with(self.symbols[i], CblasPrefix)

\* LibInspect::has_lapack
has_lapack(self) == \E i \in 1..Len(self.symbols) : self.symbols[i] = Dsyev

\* LibInspect::has_lapacke
has_lapacke(self) ==
    \E i \in 1..Len(self.symbols) : starts_with(self.symbols[i], LapackePrefix)

\* LibInspect::has_lib
has_lib(self, name) ==
    \E i \in 1..Len(self.libs) :
        split(self.libs[i], ".")[1] = <<"l", "i", "b">> \o name

\* Lines nm -g prints.
NmLines ==
    { <<"0", " ", "T", " ">> \o CblasPrefix \o <<"d">>,
      <<"0", " ", "D", " ">> \o CblasPrefix \o <<"e">>,
      <<"0", " ", "T", " ", " ">> \o CblasPrefix \o <<"x">>,
      <<" ", "0", " ", "T", " ", "a", " ">>,
      <<"0", " ", "T", " ">> \o Dsyev,
      <<" ", " ", "U", " ", "m">> }

\* Lines objdump -p prints.
ObjdumpLines ==
    { <<" ", " ">> \o NEEDED \o <<" ", " ", "l", "i", "b", "m", ".", "s", "o">>,
      <<" ">> \o NEEDED \o <<" ", "l", "i", "b", "c", ".", "s", "o">>,
      <<" ", " ", "S", "O", "N", "A", "M", "E", " ", "x">> }

MaxNmLines == 2
MaxObjdumpLines == 2

\* A command that could not be started.
Failed == [kind |-> "Failed", status |-> 0, stdout |-> <<>>]

\* A command that ran to its end, with its exit status and its output.
Exited(status, stdout) == [kind |-> "Exited", status |-> status, stdout |-> stdout]

NmOutcomes ==
    {Failed} \cup {Exited(st, out) : st \in {0, 1}, out \in SeqsOf(NmLines, 0, MaxNmLines)}

ObjdumpOutcomes ==
    {Failed} \cup {Exited(st, out) : st \in {0, 1},
                                   out \in SeqsOf(ObjdumpLines, 0, MaxObjdumpLines)}

\* Library paths given to LibInspect::new.
LibPaths == {<<"p", ".", "s", "o">>, <<"q", ".", "a">>}

InitLib ==
    /\ lib_path \in LibPaths
    /\ lib_exists \in BOOLEAN
    /\ pc = "check"
    /\ nm = NotCalled /\ objdump = NotCalled
    /\ symbols = <<>> /\ libs = <<>> /\ lib_res = NotCalled
    /\ fs = [p \in Paths |-> "missing"]
    /\ line = <<>> /\ flags = NotCalled
    /\ conf = NoConf /\ lineno = 0 /\ detail = NotCalled /\ conf_res = NotCalled

\* The existence check at the head of LibInspect::new.
CheckExists ==
    /\ pc = "check"
    /\ lib_res' = check_exists(lib_path, lib_exists)
    /\ pc' = IF lib_res' = NotCalled THEN "nm" ELSE "done"
    /\ UNCHANGED <<fs, flagVars, confVars, lib_path, lib_exists, nm, objdump, symbols, libs>>

\* `Command::new("nm").arg("-g").arg(path).output()?`
RunNm ==
    /\ pc = "nm"
    /\ \E out \in NmOutcomes :
          /\ nm' = out
          /\ lib_res' = try_output(out)
    /\ pc' = IF lib_res' = NotCalled THEN "symbols" ELSE "done"
    /\ UNCHANGED <<fs, flagVars, confVars, lib_path, lib_exists, objdump, symbols, libs>>

\* The symbols are collected from the output of nm and sorted.
CollectSymbols ==
    /\ pc = "symbols"
    /\ symbols' = collect_symbols(nm.stdout)
    /\ pc' = "objdump"
    /\ UNCHANGED <<fs, flagVars, confVars, lib_path, lib_exists, nm, objdump, libs, lib_res>>

\* `Command::new("objdump").arg("-p").arg(path).output()?` and the libs
\* collected from its output and sorted.
RunObjdump ==
    /\ pc = "objdump"
    /\ \E out \in ObjdumpOutcomes :
          /\ objdump' = out
          /\ lib_res' = try_output(out)
          /\ libs' = IF lib_res' = NotCalled THEN collect_libs(out.stdout) ELSE libs
    /\ pc' = IF lib_res' = NotCalled THEN "return" ELSE "done"
    /\ UNCHANGED <<fs, flagVars, confVars, lib_path, lib_exists, nm, symbols>>

\* `Ok(LibInspect { path, libs, symbols })`
ReturnLib ==
    /\ pc = "return"
    /\ lib_res' = [kind |-> "Ok", path |-> lib_path, libs |-> libs,
                   symbols |-> symbols]
    /\ pc' = "done"
    /\ UNCHANGED <<fs, flagVars, confVars, lib_path, lib_exists, nm, objdump, symbols, libs>>

NextLib == CheckExists \/ RunNm \/ CollectSymbols \/ RunObjdump \/ ReturnLib

SpecLib == InitLib /\ [][NextLib]_vars

----------------------------------------------------------------------------
(* Claims about LibInspect::new                                            *)

\* C6: for a path that does not exist neither command is ever started, and
\* LibInspect::new ends with LibraryNotExist carrying that path.
C6_NotExistBeforeCommands ==
    ~lib_exists =>
        /\ nm = NotCalled
        /\ objdump = NotCalled
        /\ pc = "done" => lib_res = LibraryNotExist(lib_path)

C6_Witness ==
    /\ ~lib_exists
    /\ pc = "done"
    /\ lib_res = LibraryNotExist(lib_path)

RanWell(out) == out.kind = "Exited" /\ out.status = 0

\* C7 as stated: a report is returned only when both commands were started
\* and exited with status zero; otherwise an execution error.
C7_ErrorOnAbnormalExit ==
    (pc = "done" /\ lib_exists) =>
        IF RanWell(nm) /\ RanWell(objdump)
        THEN lib_res.kind = "Ok"
        ELSE lib_res = IoError

\* C7 amended: a report is returned exactly when both commands were started,
\* whatever their exit status; a command that cannot be started gives the
\* execution error and no report.
C7_ErrorOnLaunchFailure ==
    (pc = "done" /\ lib_exists) =>
        IF nm.kind = "Exited" /\ objdump.kind = "Exited"
        THEN lib_res.kind = "Ok"
        ELSE lib_res = IoError

\* nm ran and gave a symbol, objdump could not be started: no report.
C7_Witness ==
    /\ pc = "done"
    /\ nm.kind = "Exited" /\ Len(symbols) = 1
    /\ objdump.kind = "Failed"
    /\ lib_res = IoError

NonDescending(v) == \A i \in 1..(Len(v) - 1) : StrLeq(v[i], v[i + 1])

Count(v, x) == Cardinality({i \in 1..Len(v) : v[i] = x})

\* C8 as stated: symbols and libs of a report are sorted and without
\* repetition.
C8_SortedDeduplicated ==
    lib_res.kind = "Ok" =>
        /\ StrictlyAscending(lib_res.symbols)
        /\ StrictlyAscending(lib_res.libs)

\* C8 amended: symbols and libs of a report are sorted, and a name is there
\* as many times as the output has retained lines giving it.
C8_SortedKeepingRepeats ==
    lib_res.kind = "Ok" =>
        /\ NonDescending(lib_res.symbols)
        /\ NonDescending(lib_res.libs)
        /\ \A i \in 1..Len(nm.stdout) :
              \A x \in Range(nm_symbol(nm.stdout[i])) :
                  Count(lib_res.symbols, x) =
                      Cardinality({j \in 1..Len(nm.stdout) :
                                      nm_symbol(nm.stdout[j]) = <<x>>})
        /\ \A i \in 1..Len(objdump.stdout) :
              \A x \in Range(needed_lib(objdump.stdout[i])) :
                  Count(lib_res.libs, x) =
                      Cardinality({j \in 1..Len(objdump.stdout) :
                                      needed_lib(objdump.stdout[j]) = <<x>>})

\* The same symbol line twice and the same NEEDED line twice.
C8_Witness ==
    /\ lib_res.kind = "Ok"
    /\ lib_res.symbols = <<Dsyev, Dsyev>>
    /\ Len(lib_res.libs) = 2 /\ lib_res.libs[1] = lib_res.libs[2]

\* A line that, trimmed, splits on single spaces into an address, a T and a
\* name.
IsTextSymbolLine(l) ==
    LET fields == split(trim(l), " ") IN Len(fields) = 3 /\ fields[2] = TypeT

NameOfLine(l) == split(trim(l), " ")[3]

\* C9: has_cblas() of a report is true iff some line of the nm output has
\* the shape <address> T <name> with a name starting with cblas_; the symbols
\* are the names of the lines of that shape and no others.
C9_HasCblasIffTextSymbol ==
    lib_res.kind = "Ok" =>
        /\ has_cblas(lib_res) <=>
              \E l \in Range(nm.stdout) :
                  IsTextSymbolLine(l) /\ starts_with(NameOfLine(l), CblasPrefix)
        /\ Range(lib_res.symbols) =
              {NameOfLine(l) : l \in {k \in Range(nm.stdout) : IsTextSymbolLine(k)}}

\* The only cblas_ symbol has type D, beside a T symbol of another name.
C9_Witness ==
    /\ lib_res.kind = "Ok"
    /\ nm.stdout = << <<"0", " ", "D", " ">> \o CblasPrefix \o <<"e">>,
                      <<"0", " ", "T", " ">> \o Dsyev >>
    /\ ~has_cblas(lib_res)
    /\ has_lapack(lib_res)

====
